---- MODULE Spec2Model ----
(***************************************************************************)
(* Model of src/main.py: the on-device adapter generate_cactus, the cloud  *)
(* adapter generate_cloud and the hybrid router generate_hybrid.           *)
(*                                                                         *)
(* One generate_hybrid request is followed from its call to its return or  *)
(* to the exception that leaves it.  The calls into the on-device engine   *)
(* (cactus_init, cactus_complete, cactus_destroy) and into the cloud API   *)
(* (generate_content) are the points where the request can be observed;    *)
(* the code between two of them is one step.                               *)
(*                                                                         *)
(* Python dicts are functions from keys to values; a key that is absent is *)
(* not in the DOMAIN.  Strings the code scans are sequences of characters. *)
(* Confidences and thresholds are counted in hundredths, times in ms.      *)
(***************************************************************************)
EXTENDS Integers, Sequences, FiniteSets, TLC

VARIABLES pc, messages, tools, confidence_threshold, held, raw_str, local,
          reason, cloud, result, error, log

vars == <<pc, messages, tools, confidence_threshold, held, raw_str, local,
          reason, cloud, result, error, log>>

(* ------------------------------ bounds --------------------------------- *)

MaxMsgs == 2
MaxCalls == 2
MaxParts == 2

(* ---------------------------- dict helpers ----------------------------- *)

None == [none |-> TRUE]

DictGet(d, k, default) == IF k \in DOMAIN d THEN d[k] ELSE default

SetKey(d, k, v) == [x \in (DOMAIN d) \cup {k} |-> IF x = k THEN v ELSE d[x]]

SeqsUpTo(S, n) == UNION {[1..k -> S] : k \in 0..n}

(* ---------------------------- str helpers ------------------------------ *)

\* the upper-case letters and their lower-case forms
LowerOf ==
    [
     A |-> "a", B |-> "b", C |-> "c", D |-> "d", E |-> "e", F |-> "f",
     G |-> "g", H |-> "h", I |-> "i", J |-> "j", K |-> "k", L |-> "l",
     M |-> "m", N |-> "n", O |-> "o", P |-> "p", Q |-> "q", R |-> "r",
     S |-> "s", T |-> "t", U |-> "u", V |-> "v", W |-> "w", X |-> "x",
     Y |-> "y", Z |-> "z" ]

LowerChar(c) == IF c \in DOMAIN LowerOf THEN LowerOf[c] ELSE c

\* str.lower()
Lower(s) == [i \in 1..Len(s) |-> LowerChar(s[i])]

\* k in s, for strings
Contains(s, k) ==
    \E i \in 1..(Len(s) - Len(k) + 1) :
        \A j \in 1..Len(k) : s[i + j - 1] = k[j]

RECURSIVE Join(_, _)
\* sep.join(parts)
Join(sep, parts) ==
    IF parts = <<>> THEN <<>>
    ELSE IF Len(parts) = 1 THEN parts[1]
    ELSE parts[1] \o sep \o Join(sep, Tail(parts))

(* ------------------------------ inputs --------------------------------- *)

CompareText == <<"C","o","m","p","a","r","e"," ","t","h","e"," ","w","e","a","t","h","e","r"," ","a","n","d"," ","c","a","l","c","u","l","a","t","e"," ","t","h","e"," ","d","i","f","f","e","r","e","n","c","e">>
TylenolText == <<"T","y","l","e","n","o","l"," ","A","N","D">>
SystemText == <<"c","o","m","p","a","r","e">>

MessagePool ==
    { [role |-> "user",   content |-> CompareText],
      [role |-> "user",   content |-> TylenolText],
      [role |-> "system", content |-> SystemText] }

MessageLists == SeqsUpTo(MessagePool, MaxMsgs) \ {<<>>}

get_weather ==
    [name |-> "get_weather",
     parameters |-> [properties |-> {"location", "units"},
                     required |-> <<"location">>]]
set_alarm ==
    [name |-> "set_alarm",
     parameters |-> [properties |-> {"hour", "minute"},
                     required |-> <<"hour", "minute">>]]
ping ==
    [name |-> "ping", parameters |-> [properties |-> {}]]

ToolLists == { <<get_weather>>, <<get_weather, set_alarm, ping>> }

Thresholds == {70, 90}

\* function calls the on-device engine may emit
LocalCallPool ==
    { [name |-> "get_weather", arguments |-> [location |-> "SF", units |-> "C"]],
      [name |-> "set_alarm",   arguments |-> [hour |-> "7"]],
      [name |-> "ping"] }

LocalTimes == {7}
LocalConfidences == {50, 70, 100}

ExpectedKeys == {"function_calls", "total_time_ms", "confidence"}

\* the JSON objects the engine's blob may encode: any subset of the
\* expected keys
EngineObjects ==
    UNION { UNION { UNION {
        { [k \in keys |-> CASE k = "function_calls" -> fc
                            [] k = "total_time_ms" -> t
                            [] k = "confidence" -> c] :
            c \in IF "confidence" \in keys THEN LocalConfidences ELSE {0} } :
            t \in IF "total_time_ms" \in keys THEN LocalTimes ELSE {0} } :
            fc \in IF "function_calls" \in keys
                   THEN SeqsUpTo(LocalCallPool, MaxCalls) ELSE {<<>>} } :
        keys \in SUBSET ExpectedKeys }

\* what cactus_complete may hand back: text that is not JSON, JSON that is
\* not an object, or a JSON object
Blobs ==
    { [kind |-> k] : k \in {"invalid", "array", "string", "number", "null"} }
    \cup { [kind |-> "object", value |-> o] : o \in EngineObjects }

\* parts of a Gemini response
PartPool ==
    { [text |-> "ok"],
      [function_call |-> [name |-> "get_weather", args |-> [location |-> "SF"]]] }

Responses == SeqsUpTo(PartPool, MaxParts)
CloudTimes == {9}

(* --------------------------- generate_cactus --------------------------- *)

\* json.loads(raw_str): the parsed value, or JSONDecodeError
JsonLoads(blob) ==
    IF blob.kind = "invalid" THEN [ok |-> FALSE, isdict |-> FALSE]
    ELSE IF blob.kind = "object" THEN [ok |-> TRUE, isdict |-> TRUE, value |-> blob.value]
    ELSE [ok |-> TRUE, isdict |-> FALSE]

\* the record returned from the except branch
ParseFailureResult ==
    [function_calls |-> <<>>, total_time_ms |-> 0, confidence |-> 0]

\* the record built from raw.get(...) with its defaults
NormalizedResult(raw) ==
    [function_calls |-> DictGet(raw, "function_calls", <<>>),
     total_time_ms |-> DictGet(raw, "total_time_ms", 0),
     confidence |-> DictGet(raw, "confidence", 0)]

\* a parse that lets JSONDecodeError escape
ParseOutcome_Uncaught(blob) ==
    LET parsed == JsonLoads(blob)
    IN IF ~parsed.ok THEN [raises |-> "JSONDecodeError", value |-> None]
       ELSE IF ~parsed.isdict THEN [raises |-> "AttributeError", value |-> None]
       ELSE [raises |-> "none", value |-> NormalizedResult(parsed.value)]

\* the try/except around json.loads and the return that follows it:
\* JSONDecodeError is caught; raw.get on a parsed value that is not a dict
\* raises AttributeError, which nothing catches
ParseOutcome(blob) ==
    LET parsed == JsonLoads(blob)
    IN IF ~parsed.ok THEN [raises |-> "none", value |-> ParseFailureResult]
       ELSE IF ~parsed.isdict THEN [raises |-> "AttributeError", value |-> None]
       ELSE [raises |-> "none", value |-> NormalizedResult(parsed.value)]

(* --------------------------- generate_hybrid --------------------------- *)

valid_tool_names(ts) == { ts[i].name : i \in 1..Len(ts) }

\* dict comprehension: a later tool of the same name overwrites an earlier one
required_params(ts) ==
    [n \in valid_tool_names(ts) |->
        LET last == CHOOSE i \in 1..Len(ts) :
                        /\ ts[i].name = n
                        /\ \A j \in 1..Len(ts) : ts[j].name = n => j <= i
            req == DictGet(ts[last].parameters, "required", <<>>)
        IN { req[i] : i \in 1..Len(req) }]

user_text(ms) ==
    LET users == SelectSeq(ms, LAMBDA m : m.role = "user")
    IN Lower(Join(<<" ">>, [i \in 1..Len(users) |-> users[i].content]))

complex_keywords ==
    << <<" ","a","n","d"," ">>,
       <<" ","o","r"," ">>,
       <<" ","i","f"," ">>,
       <<"c","o","m","p","a","r","e">>,
       <<"d","i","f","f","e","r","e","n","c","e">>,
       <<"b","e","t","w","e","e","n">>,
       <<"c","a","l","c","u","l","a","t","e">>,
       <<"t","h","e","n">>,
       <<"a","f","t","e","r">> >>

is_complex(ms) ==
    LET text == user_text(ms)
    IN \E i \in 1..Len(complex_keywords) : Contains(text, complex_keywords[i])

\* the chain with a confidence equal to the threshold rejected
FallbackReason_AtMost(loc, ms, ts, threshold) ==
    LET local_calls == DictGet(loc, "function_calls", <<>>)
        local_conf == DictGet(loc, "confidence", 0)
    IN IF local_calls = <<>> THEN "no_calls"
       ELSE IF Len(local_calls) > 1 THEN "multi_call"
       ELSE LET call == local_calls[1]
                required == DictGet(required_params(ts), call.name, {})
                provided == DOMAIN DictGet(call, "arguments", <<>>)
            IN IF call.name \notin valid_tool_names(ts) THEN "invalid_tool"
               ELSE IF ~(required \subseteq provided) THEN "missing_args"
               ELSE IF is_complex(ms) THEN "complex_query"
               ELSE IF local_conf <= threshold THEN "low_conf"
               ELSE "accept"

\* the chain with the confidence check ahead of the keyword scan
FallbackReason_ConfFirst(loc, ms, ts, threshold) ==
    LET local_calls == DictGet(loc, "function_calls", <<>>)
        local_conf == DictGet(loc, "confidence", 0)
    IN IF local_calls = <<>> THEN "no_calls"
       ELSE IF Len(local_calls) > 1 THEN "multi_call"
       ELSE LET call == local_calls[1]
                required == DictGet(required_params(ts), call.name, {})
                provided == DOMAIN DictGet(call, "arguments", <<>>)
            IN IF call.name \notin valid_tool_names(ts) THEN "invalid_tool"
               ELSE IF ~(required \subseteq provided) THEN "missing_args"
               ELSE IF local_conf < threshold THEN "low_conf"
               ELSE IF is_complex(ms) THEN "complex_query"
               ELSE "accept"

\* The chain of conditions 1..6: the branch generate_hybrid takes, "accept"
\* when it stays on-device
FallbackReason(loc, ms, ts, threshold) ==
    LET local_calls == DictGet(loc, "function_calls", <<>>)
        local_conf == DictGet(loc, "confidence", 0)
    IN IF local_calls = <<>> THEN "no_calls"
       ELSE IF Len(local_calls) > 1 THEN "multi_call"
       ELSE LET call == local_calls[1]
                required == DictGet(required_params(ts), call.name, {})
                provided == DOMAIN DictGet(call, "arguments", <<>>)
            IN IF call.name \notin valid_tool_names(ts) THEN "invalid_tool"
               ELSE IF ~(required \subseteq provided) THEN "missing_args"
               ELSE IF is_complex(ms) THEN "complex_query"
               ELSE IF local_conf < threshold THEN "low_conf"
               ELSE "accept"

\* the source literal each fallback branch writes
FallbackSource(r) ==
    CASE r = "no_calls" -> "cloud (fallback: no_calls)"
      [] r = "multi_call" -> "cloud (fallback: multi_call)"
      [] r = "invalid_tool" -> "cloud (fallback: invalid_tool)"
      [] r = "missing_args" -> "cloud (fallback: missing_args)"
      [] r = "complex_query" -> "cloud (fallback: complex_query)"
      [] r = "low_conf" -> "cloud (fallback: low_conf)"

\* a merge that reports the cloud's time alone
MergeFallback_CloudTimeOnly(cl, loc, r) ==
    LET local_conf == DictGet(loc, "confidence", 0)
        c1 == SetKey(cl, "source", FallbackSource(r))
    IN SetKey(c1, "local_confidence", local_conf)

\* a merge that keeps the local calls when the cloud returned none
MergeFallback_KeepLocalCalls(cl, loc, r) ==
    LET local_conf == DictGet(loc, "confidence", 0)
        local_time == DictGet(loc, "total_time_ms", 0)
        c1 == SetKey(cl, "source", FallbackSource(r))
        c2 == SetKey(c1, "local_confidence", local_conf)
        c3 == SetKey(c2, "total_time_ms", c2["total_time_ms"] + local_time)
    IN IF cl["function_calls"] = <<>>
       THEN SetKey(c3, "function_calls", DictGet(loc, "function_calls", <<>>))
       ELSE c3

\* the three assignments every fallback branch makes to the cloud record
MergeFallback(cl, loc, r) ==
    LET local_conf == DictGet(loc, "confidence", 0)
        local_time == DictGet(loc, "total_time_ms", 0)
        c1 == SetKey(cl, "source", FallbackSource(r))
        c2 == SetKey(c1, "local_confidence", local_conf)
    IN SetKey(c2, "total_time_ms", c2["total_time_ms"] + local_time)

\* an accept that also writes local_confidence
AcceptLocal_Tagged(loc) ==
    SetKey(SetKey(loc, "source", "on-device"), "local_confidence",
           DictGet(loc, "confidence", 0))

\* local["source"] = "on-device"
AcceptLocal(loc) == SetKey(loc, "source", "on-device")

(* ---------------------------- generate_cloud --------------------------- *)

RECURSIVE ExtractCalls(_)
\* the loop over candidates and parts that collects function calls
ExtractCalls(parts) ==
    IF parts = <<>> THEN <<>>
    ELSE LET part == Head(parts)
         IN (IF "function_call" \in DOMAIN part
             THEN << [name |-> part.function_call.name,
                      arguments |-> part.function_call.args] >>
             ELSE <<>>) \o ExtractCalls(Tail(parts))

CloudResult(response, total_time_ms) ==
    [function_calls |-> ExtractCalls(response), total_time_ms |-> total_time_ms]

(* ------------------------------- actions ------------------------------- *)

Init ==
    /\ pc = "idle"
    /\ messages = <<>>
    /\ tools = <<>>
    /\ confidence_threshold = 70
    /\ held = FALSE
    /\ raw_str = None
    /\ local = None
    /\ reason = "none"
    /\ cloud = None
    /\ result = None
    /\ error = "none"
    /\ log = <<>>

\* generate_hybrid(messages, tools, confidence_threshold) is called and
\* enters generate_cactus
Call ==
    /\ pc = "idle"
    /\ \E ms \in MessageLists, ts \in ToolLists, th \in Thresholds :
          /\ messages' = ms
          /\ tools' = ts
          /\ confidence_threshold' = th
    /\ pc' = "cactus_init"
    /\ UNCHANGED <<held, raw_str, local, reason, cloud, result, error, log>>

\* model = cactus_init(functiongemma_path)
CactusInit ==
    /\ pc = "cactus_init"
    /\ held' = TRUE
    /\ log' = Append(log, "cactus_init")
    /\ pc' = "cactus_complete"
    /\ UNCHANGED <<messages, tools, confidence_threshold, raw_str, local,
                   reason, cloud, result, error>>

\* raw_str = cactus_complete(model, ...) returns a blob
CactusComplete ==
    /\ pc = "cactus_complete"
    /\ \E blob \in Blobs : raw_str' = blob
    /\ log' = Append(log, "cactus_complete")
    /\ pc' = "cactus_destroy"
    /\ UNCHANGED <<messages, tools, confidence_threshold, held, local,
                   reason, cloud, result, error>>

\* cactus_complete raises: the exception leaves generate_cactus and
\* generate_hybrid, nothing in between catches it
CactusCompleteRaises ==
    /\ pc = "cactus_complete"
    /\ log' = Append(log, "cactus_complete")
    /\ error' = "EngineError"
    /\ pc' = "raised"
    /\ UNCHANGED <<messages, tools, confidence_threshold, held, raw_str,
                   local, reason, cloud, result>>

\* the call to cactus_destroy left out
CactusDestroy_Skipped ==
    /\ pc = "cactus_destroy"
    /\ pc' = "json_loads"
    /\ UNCHANGED <<messages, tools, confidence_threshold, held, raw_str,
                   local, reason, cloud, result, error, log>>

\* cactus_destroy(model)
CactusDestroy ==
    /\ pc = "cactus_destroy"
    /\ held' = FALSE
    /\ log' = Append(log, "cactus_destroy")
    /\ pc' = "json_loads"
    /\ UNCHANGED <<messages, tools, confidence_threshold, raw_str, local,
                   reason, cloud, result, error>>

\* generate_cactus parses the blob and returns its record
ParseReturn ==
    /\ pc = "json_loads"
    /\ ParseOutcome(raw_str).raises = "none"
    /\ local' = ParseOutcome(raw_str).value
    /\ pc' = "route"
    /\ UNCHANGED <<messages, tools, confidence_threshold, held, raw_str,
                   reason, cloud, result, error, log>>

\* generate_cactus raises while parsing: the exception leaves
\* generate_hybrid too
ParseRaises ==
    /\ pc = "json_loads"
    /\ ParseOutcome(raw_str).raises # "none"
    /\ error' = ParseOutcome(raw_str).raises
    /\ pc' = "raised"
    /\ UNCHANGED <<messages, tools, confidence_threshold, held, raw_str,
                   local, reason, cloud, result, log>>

\* no condition matched: the local record is labelled and returned
RouteAccept ==
    /\ pc = "route"
    /\ FallbackReason(local, messages, tools, confidence_threshold) = "accept"
    /\ result' = AcceptLocal(local)
    /\ pc' = "returned"
    /\ UNCHANGED <<messages, tools, confidence_threshold, held, raw_str,
                   local, reason, cloud, error, log>>

\* a condition matched: generate_cloud is entered and calls generate_content
RouteFallback ==
    /\ pc = "route"
    /\ FallbackReason(local, messages, tools, confidence_threshold) # "accept"
    /\ reason' = FallbackReason(local, messages, tools, confidence_threshold)
    /\ log' = Append(log, "generate_content")
    /\ pc' = "generate_cloud"
    /\ UNCHANGED <<messages, tools, confidence_threshold, held, raw_str,
                   local, cloud, result, error>>

\* generate_content answers; generate_cloud returns its record and the
\* branch merges the local telemetry into it and returns
CloudReturn ==
    /\ pc = "generate_cloud"
    /\ \E response \in Responses, t \in CloudTimes :
          /\ cloud' = CloudResult(response, t)
          /\ result' = MergeFallback(CloudResult(response, t), local, reason)
    /\ pc' = "returned"
    /\ UNCHANGED <<messages, tools, confidence_threshold, held, raw_str,
                   local, reason, error, log>>

\* a failed generate_content answered by calling it again
CloudRaises_Retry ==
    /\ pc = "generate_cloud"
    /\ error' = "CloudError"
    /\ log' = Append(log, "generate_content")
    /\ UNCHANGED <<pc, messages, tools, confidence_threshold, held, raw_str,
                   local, reason, cloud, result>>

\* generate_content raises: nothing catches it
CloudRaises ==
    /\ pc = "generate_cloud"
    /\ error' = "CloudError"
    /\ pc' = "raised"
    /\ UNCHANGED <<messages, tools, confidence_threshold, held, raw_str,
                   local, reason, cloud, result, log>>

Next ==
    \/ Call
    \/ CactusInit
    \/ CactusComplete
    \/ CactusCompleteRaises
    \/ CactusDestroy
    \/ ParseReturn
    \/ ParseRaises
    \/ RouteAccept
    \/ RouteFallback
    \/ CloudReturn
    \/ CloudRaises

Spec == Init /\ [][Next]_vars

(* ------------------- what the engine and the cloud reported ------------ *)

\* generate_cactus has handed a record to generate_hybrid
LocalDone == local # None

EngineReported(k) ==
    IF raw_str.kind = "object" /\ k \in DOMAIN raw_str.value
    THEN raw_str.value[k] ELSE 0

EngineCalls ==
    IF raw_str.kind = "object" /\ "function_calls" \in DOMAIN raw_str.value
    THEN raw_str.value["function_calls"] ELSE <<>>

Count(s, e) == Cardinality({ i \in 1..Len(s) : s[i] = e })

(* ------------------- the six rules, stated one by one ------------------ *)

KeywordSet == { complex_keywords[i] : i \in 1..Len(complex_keywords) }

RuleLabel ==
    << "cloud (fallback: no_calls)", "cloud (fallback: multi_call)",
       "cloud (fallback: invalid_tool)", "cloud (fallback: missing_args)",
       "cloud (fallback: complex_query)", "cloud (fallback: low_conf)" >>

SingleCall == Len(local.function_calls) = 1

DeclaredTool(call) == \E i \in 1..Len(tools) : tools[i].name = call.name

ProvidedKeys(call) ==
    IF "arguments" \in DOMAIN call THEN DOMAIN call.arguments ELSE {}

MissingRequired(call) ==
    \E i \in 1..Len(tools) :
        /\ tools[i].name = call.name
        /\ "required" \in DOMAIN tools[i].parameters
        /\ \E j \in 1..Len(tools[i].parameters.required) :
              tools[i].parameters.required[j] \notin ProvidedKeys(call)

TextHasKeyword ==
    LET text == user_text(messages)
    IN \E k \in KeywordSet : Contains(text, k)

RuleMatches(n) ==
    CASE n = 1 -> Len(local.function_calls) = 0
      [] n = 2 -> Len(local.function_calls) > 1
      [] n = 3 -> SingleCall /\ ~DeclaredTool(local.function_calls[1])
      [] n = 4 -> SingleCall /\ MissingRequired(local.function_calls[1])
      [] n = 5 -> TextHasKeyword
      [] n = 6 -> local.confidence < confidence_threshold

Matched == { n \in 1..6 : RuleMatches(n) }

\* first match wins
ExpectedSource ==
    LET matched == Matched
    IN IF matched = {} THEN "on-device"
       ELSE RuleLabel[CHOOSE n \in matched : \A m \in matched : n <= m]

(* -------------------------------- claims ------------------------------- *)

\* C1: the returned source is the label of the first of the six ordered
\* rules that matches the local result, and "on-device" exactly when none
\* matches (a confidence equal to the threshold is accepted).
C1_FirstMatchWins ==
    pc = "returned" =>
        /\ result.source = ExpectedSource
        /\ (result.source = "on-device" <=> Matched = {})

\* invalid_tool, complex_query and low_conf all match; invalid_tool wins
C1_Witness ==
    /\ pc = "returned"
    /\ {3, 5, 6} \subseteq Matched
    /\ result.source = "cloud (fallback: invalid_tool)"

\* C2: on a fallback the returned total_time_ms is the time the engine
\* reported (0 for a malformed blob) plus the time generate_cloud reported;
\* on the accept branch it is the engine's time alone.
C2_AdditiveTime ==
    pc = "returned" =>
        result.total_time_ms =
            IF result.source = "on-device"
            THEN EngineReported("total_time_ms")
            ELSE EngineReported("total_time_ms") + cloud.total_time_ms

C2_Witness ==
    /\ pc = "returned"
    /\ result.source # "on-device"
    /\ EngineReported("total_time_ms") = 7
    /\ cloud.total_time_ms = 9
    /\ result.total_time_ms = 16

\* C3: when no rule matches, the returned record is the local record plus
\* source = "on-device": calls, confidence and time as the engine gave them,
\* no local_confidence key, and generate_content was never called.
C3_AcceptFrame ==
    (pc = "returned" /\ Matched = {}) =>
        /\ DOMAIN result = ExpectedKeys \cup {"source"}
        /\ result.source = "on-device"
        /\ result.function_calls = EngineCalls
        /\ result.confidence = EngineReported("confidence")
        /\ result.total_time_ms = EngineReported("total_time_ms")
        /\ Count(log, "generate_content") = 0
        /\ cloud = None

C3_Witness ==
    /\ pc = "returned"
    /\ Matched = {}
    /\ result.confidence = 100
    /\ result.total_time_ms = 7
    /\ Len(result.function_calls) = 1

\* C4: generate_cactus never exits, by return or by exception, while the
\* model it acquired with cactus_init is still held.
C4_ReleasedOnEveryExit ==
    pc \in {"route", "generate_cloud", "returned", "raised"} => ~held

\* C5: a blob that is not JSON makes generate_cactus return the empty
\* record without raising, and generate_hybrid then falls back with
\* reason no_calls and local_confidence 0 for all messages, tools, threshold.
C5_MalformedIsNoCalls ==
    (pc \in {"route", "generate_cloud", "returned", "raised"}
        /\ raw_str # None /\ raw_str.kind = "invalid") =>
        /\ error \in {"none", "CloudError"}
        /\ local = [function_calls |-> <<>>, total_time_ms |-> 0,
                    confidence |-> 0]
        /\ pc = "returned" =>
              /\ result.source = "cloud (fallback: no_calls)"
              /\ result.local_confidence = 0

C5_Witness ==
    /\ pc = "returned"
    /\ raw_str.kind = "invalid"
    /\ confidence_threshold = 90
    /\ Len(messages) = 2
    /\ Len(tools) = 3
    /\ result.source = "cloud (fallback: no_calls)"

\* C6: every blob that parses as JSON, object or not, is turned into a
\* canonical record by generate_cactus, which does not raise.
C6_AnyJsonTolerated ==
    (pc \in {"route", "generate_cloud", "returned", "raised"}
        /\ raw_str # None /\ raw_str.kind # "invalid") =>
        /\ error # "AttributeError"
        /\ LocalDone
        /\ DOMAIN local = ExpectedKeys

\* C7: a keyword in the lower-cased user text sends a single, declared,
\* complete call to the cloud with reason complex_query whatever the
\* confidence is, and no request with such a text stays on-device whatever
\* its arguments are.
C7_ComplexBeforeConfidence ==
    (pc = "returned" /\ TextHasKeyword) =>
        /\ result.source # "on-device"
        /\ (/\ SingleCall
            /\ DeclaredTool(local.function_calls[1])
            /\ ~MissingRequired(local.function_calls[1]))
              => result.source = "cloud (fallback: complex_query)"

C7_Witness ==
    /\ pc = "returned"
    /\ messages = << [role |-> "user", content |-> CompareText] >>
    /\ local.confidence = 100
    /\ SingleCall
    /\ ~MissingRequired(local.function_calls[1])
    /\ result.source = "cloud (fallback: complex_query)"

\* C8: a fallback result is generate_cloud's record with source,
\* local_confidence and the summed time: local_confidence is the engine's
\* confidence (0 if none), the calls are the cloud's calls whatever their
\* number, and there is no confidence key.
C8_MergedRecord ==
    (pc = "returned" /\ result.source # "on-device") =>
        /\ DOMAIN result = {"function_calls", "total_time_ms", "source",
                            "local_confidence"}
        /\ result.local_confidence = EngineReported("confidence")
        /\ result.function_calls = cloud.function_calls

C8_Witness ==
    /\ pc = "returned"
    /\ result.source = "cloud (fallback: low_conf)"
    /\ result.local_confidence = 50
    /\ Len(result.function_calls) = 2
    /\ Len(EngineCalls) = 1

\* C9: generate_content is called only after cactus_init, cactus_complete
\* and cactus_destroy have happened in that order, never while the model is
\* held, once when a rule matches and never when none does.
C9_LocalBeforeCloud ==
    /\ \A i \in 1..Len(log) :
          log[i] = "generate_content" =>
              SubSeq(log, 1, i - 1) =
                  <<"cactus_init", "cactus_complete", "cactus_destroy">>
    /\ pc = "generate_cloud" => (~held /\ LocalDone)
    /\ (pc \in {"generate_cloud", "returned"} \/ error = "CloudError") =>
          Count(log, "generate_content") = (IF Matched = {} THEN 0 ELSE 1)

C9_Witness ==
    /\ pc = "generate_cloud"
    /\ ~held
    /\ log = <<"cactus_init", "cactus_complete", "cactus_destroy",
               "generate_content">>

\* C10: when generate_content fails the request ends with that exception:
\* generate_content and cactus_init were each called once and no record is
\* returned.
C10_CloudFailureIsFatal ==
    /\ Count(log, "generate_content") <= 1
    /\ Count(log, "cactus_init") <= 1
    /\ error = "CloudError" =>
          /\ pc = "raised"
          /\ result = None
          /\ Count(log, "generate_content") = 1

C10_Witness ==
    /\ pc = "raised"
    /\ error = "CloudError"
    /\ local.confidence = 100
    /\ Len(local.function_calls) = 1
====
